---- MODULE Spec2Model ----
(***************************************************************************)
(* Model of project-code-combiner's dependency resolution:                 *)
(*   src/src/dependency_resolver.rs  DependencyResolver                    *)
(*   src/src/typescript_resolver.rs  TypeScriptResolver                    *)
(*   src/src/main.rs                 FileProcessor                         *)
(* Paths and import specifiers are strings, handled with the string        *)
(* operations the Rust code uses (starts_with, contains, strip_prefix,     *)
(* trim_start_matches, replacen, Path::parent, Path::join).                *)
(***************************************************************************)
EXTENDS Integers, Sequences, FiniteSets, TLC

(***************************************************************************)
(* Bounds                                                                  *)
(***************************************************************************)
\* number of top-level calls (resolve_deps / process_file_with_deps) in a run
MaxCalls == 2

(***************************************************************************)
(* The file system the program runs on                                     *)
(***************************************************************************)
FileA == "/p/src/a.ts"
FileB == "/p/src/b.ts"
FileC == "/p/src/c.ts"
FileD == "/p/src/d.ts"
FileW == "/p/src/app/widget.ts"
FileN == "/p/node_modules/lib/index.js"
FileV == "/p/src/v1.2/x.ts"
FileE == "/p/tools/e.ts"
FileT == "/p/tools/src/d.ts"

\* regular files on disk
FsFiles == {FileA, FileB, FileC, FileD, FileW, FileN, FileV, FileE, FileT}

None == "<None>"

(***************************************************************************)
(* str / Path primitives                                                   *)
(***************************************************************************)
\* str::starts_with
StartsWith(s, p) == Len(s) >= Len(p) /\ SubSeq(s, 1, Len(p)) = p

\* str::contains
Contains(s, p) ==
    \E i \in 1..(Len(s) - Len(p) + 1) : SubSeq(s, i, i + Len(p) - 1) = p

\* str::strip_prefix (used after starts_with has been checked)
StripPrefix(s, p) == SubSeq(s, Len(p) + 1, Len(s))

\* str::trim_start_matches for a one-character pattern
RECURSIVE TrimStartMatches(_, _)
TrimStartMatches(s, c) ==
    IF StartsWith(s, c) /\ Len(s) > 0
    THEN TrimStartMatches(SubSeq(s, 2, Len(s)), c)
    ELSE s

\* str::replacen(from, to, 1): replaces the first occurrence of from
ReplaceFirst(s, from, to) ==
    IF ~Contains(s, from) THEN s
    ELSE LET i == CHOOSE k \in 1..(Len(s) - Len(from) + 1) :
                     /\ SubSeq(s, k, k + Len(from) - 1) = from
                     /\ \A j \in 1..(k - 1) : SubSeq(s, j, j + Len(from) - 1) # from
         IN SubSeq(s, 1, i - 1) \o to \o SubSeq(s, i + Len(from), Len(s))

\* index of the last "/" of s, 0 when there is none
LastSlash(s) ==
    IF Contains(s, "/")
    THEN CHOOSE k \in 1..Len(s) :
             /\ SubSeq(s, k, k) = "/"
             /\ \A j \in (k + 1)..Len(s) : SubSeq(s, j, j) # "/"
    ELSE 0

\* Path::parent; None for "/" and for the empty path
Parent(path) ==
    IF path = "/" \/ path = "" THEN None
    ELSE LET k == LastSlash(path)
         IN IF k = 0 THEN ""
            ELSE IF k = 1 THEN "/"
            ELSE SubSeq(path, 1, k - 1)

\* last component of a path
FileName(path) == SubSeq(path, LastSlash(path) + 1, Len(path))

\* Path::ends_with for a single component
EndsWithComponent(path, comp) == FileName(path) = comp

\* Path::join
Join(base, rel) ==
    IF StartsWith(rel, "/") THEN rel
    ELSE IF base = "" THEN rel
    ELSE IF SubSeq(base, Len(base), Len(base)) = "/" THEN base \o rel
    ELSE base \o "/" \o rel

\* the components of a path ("/p/./x" -> <<"p", ".", "x">>)
RECURSIVE Components(_)
Components(path) ==
    IF path = "" THEN <<>>
    ELSE IF StartsWith(path, "/") THEN Components(SubSeq(path, 2, Len(path)))
    ELSE LET n == IF Contains(path, "/")
                  THEN (CHOOSE k \in 1..Len(path) :
                            /\ SubSeq(path, k, k) = "/"
                            /\ \A j \in 1..(k - 1) : SubSeq(path, j, j) # "/") - 1
                  ELSE Len(path)
         IN <<SubSeq(path, 1, n)>> \o Components(SubSeq(path, n + 1, Len(path)))

\* lexical normalisation of "." and ".." components
RECURSIVE NormalizeComps(_, _)
NormalizeComps(comps, acc) ==
    IF comps = <<>> THEN acc
    ELSE IF Head(comps) = "." THEN NormalizeComps(Tail(comps), acc)
    ELSE IF Head(comps) = ".."
         THEN NormalizeComps(Tail(comps),
                             IF acc = <<>> THEN acc ELSE SubSeq(acc, 1, Len(acc) - 1))
    ELSE NormalizeComps(Tail(comps), Append(acc, Head(comps)))

RECURSIVE FromComps(_)
FromComps(comps) ==
    IF comps = <<>> THEN "" ELSE "/" \o Head(comps) \o FromComps(Tail(comps))

Normalize(path) ==
    LET c == NormalizeComps(Components(path), <<>>)
    IN IF c = <<>> THEN "/" ELSE FromComps(c)

\* the directories of the file system: every proper ancestor of a file
RECURSIVE Ancestors(_)
Ancestors(path) ==
    LET p == Parent(path)
    IN IF p = None \/ p = "" THEN {} ELSE {p} \cup Ancestors(p)

FsDirs == UNION {Ancestors(f) : f \in FsFiles}

\* Path::exists: true of files and of directories
PathExists(path) == Normalize(path) \in FsFiles \cup FsDirs

IsFile(path) == path \in FsFiles

(***************************************************************************)
(* DependencyResolver::new / load_tsconfig_aliases                         *)
(***************************************************************************)
\* env::current_dir(), the project root handed to DependencyResolver::new
BasePath == "/p"

\* compilerOptions.paths of /p/tsconfig.json: alias pattern -> first target
TsconfigPaths == [alias \in {"@app/*"} |-> "src/app/*"]

\* str::trim_end_matches("/*")
RECURSIVE TrimEndSlashStar(_)
TrimEndSlashStar(s) ==
    IF Len(s) >= 2 /\ SubSeq(s, Len(s) - 1, Len(s)) = "/*"
    THEN TrimEndSlashStar(SubSeq(s, 1, Len(s) - 2))
    ELSE s

\* the alias table built by load_tsconfig_aliases (a set of <<alias, target>>)
LoadTsconfigAliases ==
    {<<TrimEndSlashStar(a), TrimEndSlashStar(TsconfigPaths[a])>> : a \in DOMAIN TsconfigPaths}

(***************************************************************************)
(* oxc_resolver::Resolver::resolve with the options of TypeScriptResolver  *)
(***************************************************************************)
Extensions == <<".ts", ".tsx", ".js", ".jsx">>

\* first extension e (in order) for which stem \o e is a file
FirstWithExtension(stem) ==
    IF \E i \in 1..Len(Extensions) : IsFile(stem \o Extensions[i])
    THEN stem \o Extensions[CHOOSE i \in 1..Len(Extensions) :
                               /\ IsFile(stem \o Extensions[i])
                               /\ \A j \in 1..(i - 1) : ~IsFile(stem \o Extensions[j])]
    ELSE None

\* the path itself when it is a file, else the path with an extension,
\* else the index file of the directory
LoadPath(path) ==
    IF IsFile(path) THEN path
    ELSE IF FirstWithExtension(path) # None THEN FirstWithExtension(path)
    ELSE IF path \in FsDirs THEN FirstWithExtension(Join(path, "index"))
    ELSE None

IsRelativeSpecifier(spec) ==
    spec = "." \/ spec = ".." \/ StartsWith(spec, "./") \/ StartsWith(spec, "../")

\* node_modules lookup: dir, then each ancestor of dir
RECURSIVE LoadNodeModules(_, _)
LoadNodeModules(dir, spec) ==
    LET hit == LoadPath(Normalize(Join(Join(dir, "node_modules"), spec)))
    IN IF hit # None THEN hit
       ELSE IF Parent(dir) = None \/ Parent(dir) = "" THEN None
       ELSE LoadNodeModules(Parent(dir), spec)

OxcResolve(dir, spec) ==
    IF spec = "" THEN None
    ELSE IF StartsWith(spec, "/") THEN LoadPath(Normalize(spec))
    ELSE IF IsRelativeSpecifier(spec) THEN LoadPath(Normalize(Join(dir, spec)))
    ELSE LoadNodeModules(dir, spec)

(***************************************************************************)
(* TypeScriptResolver                                                      *)
(***************************************************************************)
\* resolve_with_alias: always Some(string).  alias_map is the table of
\* get_alias_map(); HashMap iteration picks any alias that matches
ResolveWithAlias(import_path, alias_map) ==
    IF StartsWith(import_path, "~")
    THEN LET path == TrimStartMatches(StripPrefix(import_path, "~"), "/")
         IN IF ~Contains(path, ".") THEN path \o ".ts" ELSE path
    ELSE IF StartsWith(import_path, "@") \/ ~StartsWith(import_path, ".")
    THEN import_path
    ELSE LET matching == {am \in alias_map : StartsWith(import_path, am[1])}
         IN IF matching # {}
            THEN LET am == CHOOSE m \in matching : TRUE
                 IN ReplaceFirst(import_path, am[1], am[2])
            ELSE import_path

\* the loop of resolve_import_with_resolver that looks for a directory
\* named "src" from dir upwards; None when the walk reaches the top
RECURSIVE FindRoot(_)
FindRoot(dir) ==
    IF Parent(dir) = None THEN None
    ELSE IF EndsWithComponent(dir, "src") THEN Parent(dir)
    ELSE FindRoot(Parent(dir))

ProjectRoot(current_file) ==
    IF Parent(current_file) # None
    THEN IF FindRoot(Parent(current_file)) # None
         THEN FindRoot(Parent(current_file))
         ELSE Parent(current_file)
    ELSE BasePath

\* resolve_import_with_resolver: the resolved path, or None
ResolveImportWithResolver(import_path, current_file, alias_map) ==
    LET resolved_path == ResolveWithAlias(import_path, alias_map)
    IN IF StartsWith(resolved_path, "@") \/ ~StartsWith(resolved_path, ".")
       THEN LET src_dir     == Join(ProjectRoot(current_file), "src")
                direct_path == Join(src_dir, resolved_path)
            IN IF PathExists(direct_path) THEN direct_path
               ELSE OxcResolve(src_dir, resolved_path)
       ELSE LET current_dir == IF Parent(current_file) # None
                               THEN Parent(current_file) ELSE ""
            IN OxcResolve(current_dir, resolved_path)

\* should_ignore_file that tests the start of the path
ShouldIgnoreFilePrefix(path) == StartsWith(path, "node_modules")

\* should_ignore_file
ShouldIgnoreFile(path) == Contains(path, "node_modules")

(***************************************************************************)
(* State                                                                   *)
(***************************************************************************)
VARIABLES
    \* the file system: what get_imports extracts from each file, the files
    \* whose fs::read_to_string fails, and what resolve_import_with_resolver
    \* answers for each import of each file (the disk does not change)
    content, unreadable, resolution,
    \* DependencyResolver fields
    alias_map, resolved_files, dependency_graph, processing_stack,
    \* position of the running resolve_deps call: pc, the argument of the
    \* resolve_deps_recursive call being entered, and one frame per active
    \* resolve_deps_recursive call that is inside its for loop
    pc, current_file, frames, entry_file,
    \* the locals of the second pass of resolve_deps: the work stack and
    \* all_files, kept in insertion order
    walk_stack, all_files,
    \* return value of the last resolve_deps call
    result,
    \* number of top-level calls made so far
    calls,
    \* observation of the running call: the files handed to
    \* fs::read_to_string, in order, and the files named in warnings
    reads, warnings,
    \* status returned by the resolve_deps call before the running one
    prev_status,
    \* FileProcessor fields; combined_source_code is kept as the sequence of
    \* <file> elements pushed onto it
    processed_files, dependency_map, combined_source_code,
    \* the paths options.ignore_patterns matches
    ignore_patterns,
    \* position of process_files, and the entry process_file_with_deps runs on
    fp_pc, fp_file,
    \* observation: per dependency, every importer any entry's traversal reported
    pulled_in,
    \* the last resolve_import_with_resolver call made on its own: the
    \* specifier and what it returned
    import_path, resolved_import

world    == <<content, unreadable, resolution, alias_map>>
resolver == <<resolved_files, dependency_graph, processing_stack>>
control  == <<pc, current_file, frames, entry_file, result, calls>>
walk     == <<walk_stack, all_files>>
observed == <<reads, warnings>>
history  == <<prev_status>>
lookup   == <<import_path, resolved_import>>
processor == <<processed_files, dependency_map, combined_source_code,
               ignore_patterns, fp_pc, fp_file, pulled_in>>
vars     == <<world, resolver, control, walk, observed, history, processor,
             lookup>>

(***************************************************************************)
(* Inputs                                                                  *)
(***************************************************************************)
\* what the import extractor finds in a.ts, b.ts, c.ts and d.ts
ImportsOfA ==
    { <<>>, <<"./b">>, <<"./b", "./c">>, <<"./a", "./b">>, <<"./missing", "./d">>,
      <<"lib", "./d">>, <<"@app/widget", "@app/nothing", "~/d">>,
      <<"app", "./b">>, <<"./app/widget", "./b">> }
ImportsOfB == { <<>>, <<"./d">>, <<"./a">>, <<"./c", "./a">>, <<"./d", "./d">>, <<"lib", "./b">> }
ImportsOfC == { <<>>, <<"./d">>, <<"./a", "./d">> }
ImportsOfD == { <<>>, <<"./b">> }

Contents ==
    { [f \in FsFiles |-> CASE f = FileA -> a [] f = FileB -> b [] f = FileC -> c
                           [] f = FileD -> d [] OTHER -> <<>>] :
        a \in ImportsOfA, b \in ImportsOfB, c \in ImportsOfC, d \in ImportsOfD }

\* at most one file is unreadable
UnreadableSets == {{}} \cup {{f} : f \in {FileA, FileB, FileD}}

\* the entry files the caller passes
Entries == {FileA, FileB, FileN}

NoResult == [status |-> "none", files |-> <<>>]

(***************************************************************************)
(* Helpers over the resolver state                                         *)
(***************************************************************************)
EmptyGraph == <<>>

\* dependency_graph.entry(key).or_default().insert(value)
GraphInsert(graph, key, value) ==
    [k \in DOMAIN graph \cup {key} |->
        IF k = key
        THEN (IF key \in DOMAIN graph THEN graph[key] ELSE {}) \cup {value}
        ELSE graph[k]]

\* dependency_graph.get(key), the empty set standing for a missing key
GraphGet(graph, key) == IF key \in DOMAIN graph THEN graph[key] ELSE {}

Range(seq) == {seq[i] : i \in 1..Len(seq)}

\* one iteration order of a set
RECURSIVE SetToSeq(_)
SetToSeq(S) ==
    IF S = {} THEN <<>>
    ELSE LET x == CHOOSE y \in S : TRUE IN <<x>> \o SetToSeq(S \ {x})

\* fs::read_to_string succeeds on the readable regular files only
Readable(path) == path \in FsFiles /\ path \notin unreadable

\* get_all_importers that does not push the importers it finds
ImportersWalkDirect(graph, stack, visited, all_importers) ==
    {k \in DOMAIN graph : \E i \in 1..Len(stack) : stack[i] \in graph[k]}

\* get_all_importers
RECURSIVE ImportersWalk(_, _, _, _)
ImportersWalk(graph, stack, visited, all_importers) ==
    IF stack = <<>> THEN all_importers
    ELSE LET current == stack[Len(stack)]
             rest    == SubSeq(stack, 1, Len(stack) - 1)
         IN IF current \in visited
            THEN ImportersWalk(graph, rest, visited, all_importers)
            ELSE LET found == {k \in DOMAIN graph : current \in graph[k]}
                 IN ImportersWalk(graph, rest \o SetToSeq(found),
                                  visited \cup {current}, all_importers \cup found)

GetAllImporters(file) == ImportersWalk(dependency_graph, <<file>>, {}, {})

(***************************************************************************)
(* Init                                                                    *)
(***************************************************************************)
Init ==
    /\ content \in Contents
    /\ unreadable \in UnreadableSets
    /\ alias_map = LoadTsconfigAliases
    /\ resolution = [f \in FsFiles |->
                        [i \in 1..Len(content[f]) |->
                            ResolveImportWithResolver(content[f][i], f, alias_map)]]
    /\ resolved_files = {}
    /\ dependency_graph = EmptyGraph
    /\ processing_stack = <<>>
    /\ pc = "idle"
    /\ current_file = None
    /\ frames = <<>>
    /\ entry_file = None
    /\ walk_stack = <<>>
    /\ all_files = <<>>
    /\ result = NoResult
    /\ calls = 0
    /\ reads = <<>>
    /\ warnings = <<>>
    /\ prev_status = "none"
    /\ processed_files = {}
    /\ dependency_map = <<>>
    /\ combined_source_code = <<>>
    /\ ignore_patterns = {}
    /\ fp_pc = "direct"
    /\ fp_file = None
    /\ pulled_in = <<>>
    /\ import_path = None
    /\ resolved_import = None

(***************************************************************************)
(* DependencyResolver::resolve_deps and resolve_deps_recursive             *)
(***************************************************************************)
\* where a resolve_deps_recursive call returns Ok(()) to
ReturnTo(fs) == IF fs = <<>> THEN "collect" ELSE "loop"

\* ResolveDepsBegin that does not clear processing_stack
ResolveDepsBeginKeepStack(entry) ==
    /\ pc = "idle"
    /\ calls < MaxCalls
    /\ processing_stack' = processing_stack
    /\ dependency_graph' = EmptyGraph
    /\ resolved_files' = {}
    /\ pc' = "enter"
    /\ current_file' = entry
    /\ entry_file' = entry
    /\ frames' = <<>>
    /\ result' = NoResult
    /\ calls' = calls + 1
    /\ reads' = <<>>
    /\ warnings' = <<>>
    /\ prev_status' = result.status
    /\ UNCHANGED <<world, lookup, walk>>

\* resolve_deps, lines 91-95: clear the state and call resolve_deps_recursive
ResolveDepsBegin(entry) ==
    /\ pc = "idle"
    /\ calls < MaxCalls
    /\ processing_stack' = <<>>
    /\ dependency_graph' = EmptyGraph
    /\ resolved_files' = {}
    /\ pc' = "enter"
    /\ current_file' = entry
    /\ entry_file' = entry
    /\ frames' = <<>>
    /\ result' = NoResult
    /\ calls' = calls + 1
    /\ reads' = <<>>
    /\ warnings' = <<>>
    /\ prev_status' = result.status
    /\ UNCHANGED <<world, lookup, walk>>

\* resolve_deps called directly on the DependencyResolver
ResolveDeps(entry) ==
    /\ fp_pc = "direct"
    /\ ResolveDepsBegin(entry)
    /\ UNCHANGED processor

\* a cycle test that looks at the top of the stack only
OnStackTopOnly(stack, file) == stack # <<>> /\ stack[Len(stack)] = file

\* the processing_stack.contains test of line 116
OnStack(stack, file) == file \in Range(stack)

\* resolve_deps_recursive, lines 116-122: the file is on the stack
EnterCircular ==
    /\ pc = "enter"
    /\ OnStack(processing_stack, current_file)
    /\ warnings' = Append(warnings, current_file)
    /\ pc' = ReturnTo(frames)
    /\ UNCHANGED <<world, lookup, history, processor, walk, resolver, current_file,
                   frames, entry_file, result, calls, reads>>

\* EnterResolved that reads a resolved file again
EnterResolvedReread ==
    /\ pc = "enter"
    /\ ~OnStack(processing_stack, current_file)
    /\ current_file \in resolved_files
    /\ Readable(current_file)
    /\ processing_stack' = Append(processing_stack, current_file)
    /\ reads' = Append(reads, current_file)
    /\ frames' = Append(frames, [file    |-> current_file,
                                 imports |-> content[current_file],
                                 next    |-> 1])
    /\ pc' = "loop"
    /\ UNCHANGED <<world, lookup, history, processor, walk, resolved_files,
                   dependency_graph, current_file, entry_file, result, calls,
                   warnings>>

\* resolve_deps_recursive, lines 124-126: the file is already resolved
EnterResolved ==
    /\ pc = "enter"
    /\ ~OnStack(processing_stack, current_file)
    /\ current_file \in resolved_files
    /\ pc' = ReturnTo(frames)
    /\ UNCHANGED <<world, lookup, history, processor, walk, resolver, current_file,
                   frames, entry_file, result, calls, observed>>

\* EnterRead that takes an unreadable file for a file without imports
EnterReadSwallow ==
    /\ pc = "enter"
    /\ current_file \notin Range(processing_stack)
    /\ current_file \notin resolved_files
    /\ processing_stack' = Append(processing_stack, current_file)
    /\ reads' = Append(reads, current_file)
    /\ frames' = Append(frames, [file    |-> current_file,
                                 imports |-> IF Readable(current_file)
                                             THEN content[current_file] ELSE <<>>,
                                 next    |-> 1])
    /\ pc' = "loop"
    /\ UNCHANGED <<world, lookup, history, processor, walk, resolved_files,
                   dependency_graph, current_file, entry_file, result, calls,
                   warnings>>

\* resolve_deps_recursive, lines 128-131: push, read, extract the imports
EnterRead ==
    /\ pc = "enter"
    /\ ~OnStack(processing_stack, current_file)
    /\ current_file \notin resolved_files
    /\ processing_stack' = Append(processing_stack, current_file)
    /\ reads' = Append(reads, current_file)
    /\ IF Readable(current_file)
       THEN /\ frames' = Append(frames, [file    |-> current_file,
                                         imports |-> content[current_file],
                                         next    |-> 1])
            /\ pc' = "loop"
       ELSE /\ frames' = frames
            /\ pc' = "error"
    /\ UNCHANGED <<world, lookup, history, processor, walk, resolved_files,
                   dependency_graph, current_file, entry_file, result, calls,
                   warnings>>

\* LoopImport that tests the stack before it records the edge
LoopImportDropCyclic ==
    /\ pc = "loop"
    /\ LET top == frames[Len(frames)] IN
       /\ top.next <= Len(top.imports)
       /\ LET resolved_path == resolution[top.file][top.next]
              skip == resolved_path = None \/ ShouldIgnoreFile(resolved_path)
          IN /\ frames' = [frames EXCEPT ![Len(frames)].next = top.next + 1]
             /\ dependency_graph' =
                    IF skip \/ OnStack(processing_stack, resolved_path)
                    THEN dependency_graph
                    ELSE GraphInsert(dependency_graph, top.file, resolved_path)
             /\ current_file' = IF skip THEN current_file ELSE resolved_path
             /\ pc' = IF skip THEN "loop" ELSE "enter"
    /\ UNCHANGED <<world, lookup, history, processor, walk, resolved_files,
                   processing_stack, entry_file, result, calls, observed>>

\* LoopImport that leaves the loop at the first unresolved specifier
LoopImportBreak ==
    /\ pc = "loop"
    /\ LET top == frames[Len(frames)] IN
       /\ top.next <= Len(top.imports)
       /\ LET resolved_path == resolution[top.file][top.next]
              skip == resolved_path = None \/ ShouldIgnoreFile(resolved_path)
          IN /\ frames' = [frames EXCEPT ![Len(frames)].next =
                              IF resolved_path = None THEN Len(top.imports) + 1
                              ELSE top.next + 1]
             /\ dependency_graph' =
                    IF skip THEN dependency_graph
                    ELSE GraphInsert(dependency_graph, top.file, resolved_path)
             /\ current_file' = IF skip THEN current_file ELSE resolved_path
             /\ pc' = IF skip THEN "loop" ELSE "enter"
    /\ UNCHANGED <<world, lookup, history, processor, walk, resolved_files,
                   processing_stack, entry_file, result, calls, observed>>

\* one iteration of the for loop, lines 133-150
LoopImport ==
    /\ pc = "loop"
    /\ LET top == frames[Len(frames)] IN
       /\ top.next <= Len(top.imports)
       /\ LET resolved_path == resolution[top.file][top.next]
              skip == resolved_path = None \/ ShouldIgnoreFile(resolved_path)
          IN /\ frames' = [frames EXCEPT ![Len(frames)].next = top.next + 1]
             /\ dependency_graph' =
                    IF skip THEN dependency_graph
                    ELSE GraphInsert(dependency_graph, top.file, resolved_path)
             /\ current_file' = IF skip THEN current_file ELSE resolved_path
             /\ pc' = IF skip THEN "loop" ELSE "enter"
    /\ UNCHANGED <<world, lookup, history, processor, walk, resolved_files,
                   processing_stack, entry_file, result, calls, observed>>

\* LoopDone without the pop of line 152
LoopDoneNoPop ==
    /\ pc = "loop"
    /\ LET top == frames[Len(frames)] IN
       /\ top.next > Len(top.imports)
       /\ processing_stack' = processing_stack
       /\ resolved_files' = resolved_files \cup {top.file}
       /\ frames' = SubSeq(frames, 1, Len(frames) - 1)
       /\ pc' = ReturnTo(frames')
    /\ UNCHANGED <<world, lookup, history, processor, walk, dependency_graph,
                   current_file, entry_file, result, calls, observed>>

\* the end of resolve_deps_recursive, lines 152-154
LoopDone ==
    /\ pc = "loop"
    /\ LET top == frames[Len(frames)] IN
       /\ top.next > Len(top.imports)
       /\ processing_stack' = SubSeq(processing_stack, 1, Len(processing_stack) - 1)
       /\ resolved_files' = resolved_files \cup {top.file}
       /\ frames' = SubSeq(frames, 1, Len(frames) - 1)
       /\ pc' = ReturnTo(frames')
    /\ UNCHANGED <<world, lookup, history, processor, walk, dependency_graph,
                   current_file, entry_file, result, calls, observed>>

\* the ? of line 147: an active call returns the error of its callee
PropagateError ==
    /\ pc = "error"
    /\ frames # <<>>
    /\ frames' = SubSeq(frames, 1, Len(frames) - 1)
    /\ UNCHANGED <<world, lookup, history, processor, walk, resolver, pc, current_file,
                   entry_file, result, calls, observed>>

\* the ? of line 95: resolve_deps returns the error
ReturnError ==
    /\ pc = "error"
    /\ frames = <<>>
    /\ result' = [status |-> "err", files |-> <<>>]
    /\ pc' = "idle"
    /\ UNCHANGED <<world, lookup, history, processor, walk, resolver, current_file,
                   frames, entry_file, calls, observed>>

\* resolve_deps, lines 97-98: the locals of the second pass
StartWalk ==
    /\ pc = "collect"
    /\ all_files' = <<>>
    /\ walk_stack' = <<entry_file>>
    /\ pc' = "walk"
    /\ UNCHANGED <<world, lookup, history, processor, resolver, current_file, frames,
                   entry_file, result, calls, observed>>

\* WalkStep that pops a file without pushing its dependencies
WalkStepNoFollow ==
    /\ pc = "walk"
    /\ walk_stack # <<>>
    /\ LET current == walk_stack[Len(walk_stack)]
           rest    == SubSeq(walk_stack, 1, Len(walk_stack) - 1)
       IN /\ all_files' = IF current \notin Range(all_files)
                          THEN Append(all_files, current) ELSE all_files
          /\ walk_stack' = rest
    /\ UNCHANGED <<world, lookup, history, processor, resolver, pc, current_file,
                   frames, entry_file, result, calls, observed>>

\* one iteration of the while loop, lines 100-106
WalkStep ==
    /\ pc = "walk"
    /\ walk_stack # <<>>
    /\ LET current == walk_stack[Len(walk_stack)]
           rest    == SubSeq(walk_stack, 1, Len(walk_stack) - 1)
       IN IF current \notin Range(all_files)
          THEN /\ all_files' = Append(all_files, current)
               /\ walk_stack' = rest \o SetToSeq(GraphGet(dependency_graph, current))
          ELSE /\ all_files' = all_files
               /\ walk_stack' = rest
    /\ UNCHANGED <<world, lookup, history, processor, resolver, pc, current_file,
                   frames, entry_file, result, calls, observed>>

\* resolve_deps, line 108: the work stack is empty, all_files is returned
ReturnReachable ==
    /\ pc = "walk"
    /\ walk_stack = <<>>
    /\ result' = [status |-> "ok", files |-> all_files]
    /\ pc' = "idle"
    /\ UNCHANGED <<world, lookup, history, processor, walk, resolver, current_file,
                   frames, entry_file, calls, observed>>

\* the steps of a running resolve_deps call
Traverse ==
    \/ EnterCircular
    \/ EnterResolved
    \/ EnterRead
    \/ LoopImport
    \/ LoopDone
    \/ PropagateError
    \/ ReturnError
    \/ StartWalk
    \/ WalkStep
    \/ ReturnReachable

Next ==
    \/ \E entry \in Entries : ResolveDeps(entry)
    \/ Traverse

Spec == Init /\ [][Next]_vars

\* a running call is never suspended: the traversal is synchronous
FairSpec == Spec /\ WF_vars(Traverse)

(***************************************************************************)
(* FileProcessor (main.rs)                                                 *)
(***************************************************************************)
\* is_ignored: the path matches one of options.ignore_patterns
IsIgnored(path) == path \in ignore_patterns

\* the paths of this file system in the order of PathBuf::cmp
SortedPaths ==
    << "/", "/p", "/p/node_modules", "/p/node_modules/lib", FileN,
       "/p/src", FileA, "/p/src/app", FileW, FileB, FileC, FileD,
       "/p/src/v1.2", FileV, "/p/tools", FileE, "/p/tools/src", FileT >>

\* deps.sort_by(|a, b| a.0.cmp(b.0)) over the keys of dependency_map
SortedDeps(keys) ==
    LET idx == {i \in 1..Len(SortedPaths) : SortedPaths[i] \in keys}
        RECURSIVE Pick(_)
        Pick(rem) == IF rem = {} THEN <<>>
                     ELSE LET m == CHOOSE i \in rem : \A j \in rem : i <= j
                          IN <<SortedPaths[m]>> \o Pick(rem \ {m})
    IN Pick(idx)

\* a <file> element of the combined output
FileElement(section, path, importers) ==
    [section |-> section, name |-> path, imported_by |-> importers]

\* process_file_with_deps, lines 131-142: skip a processed file, else emit
\* it and call resolve_deps
ProcessFileWithDeps(file_path) ==
    /\ fp_pc = "idle"
    /\ pc = "idle"
    /\ calls < MaxCalls
    /\ IF file_path \in processed_files
       THEN /\ calls' = calls + 1
            /\ UNCHANGED <<world, lookup, resolver, walk, observed, history, processor,
                           pc, current_file, frames, entry_file, result>>
       ELSE IF ~IsIgnored(file_path) /\ ~Readable(file_path)
       THEN \* process_single_file fails, ? returns the error
            /\ calls' = calls + 1
            /\ fp_pc' = "failed"
            /\ UNCHANGED <<world, lookup, resolver, walk, observed, history,
                           processed_files, dependency_map,
                           combined_source_code, ignore_patterns, fp_file,
                           pulled_in, pc, current_file, frames, entry_file,
                           result>>
       ELSE /\ combined_source_code' =
                   IF IsIgnored(file_path) THEN combined_source_code
                   ELSE Append(combined_source_code,
                               FileElement("main", file_path, {}))
            /\ processed_files' = processed_files \cup {file_path}
            /\ fp_file' = file_path
            /\ fp_pc' = "resolving"
            /\ ResolveDepsBegin(file_path)
            /\ UNCHANGED <<dependency_map, ignore_patterns, pulled_in>>

\* dependency_map.insert(dep, importers[dep]) for each dep of deps
MapInsertAll(map, deps, importers) ==
    [d \in DOMAIN map \cup deps |-> IF d \in deps THEN importers[d] ELSE map[d]]

\* process_file_with_deps, lines 142-151: resolve_deps has returned
FinishProcessFileWithDeps ==
    /\ fp_pc = "resolving"
    /\ pc = "idle"
    /\ IF result.status = "err"
       THEN /\ fp_pc' = "failed"
            /\ UNCHANGED <<dependency_map, pulled_in>>
       ELSE LET deps == {d \in Range(result.files) :
                             ~IsIgnored(d) /\ d # fp_file}
                all_importers == [d \in deps |-> GetAllImporters(d)]
                seen == [d \in deps |->
                            (IF d \in DOMAIN pulled_in THEN pulled_in[d] ELSE {})
                                \cup all_importers[d]]
            IN /\ dependency_map' = MapInsertAll(dependency_map, deps, all_importers)
               /\ pulled_in' = MapInsertAll(pulled_in, deps, seen)
               /\ fp_pc' = "idle"
    /\ UNCHANGED <<world, lookup, resolver, control, walk, observed, history,
                   processed_files, combined_source_code, ignore_patterns,
                   fp_file>>

\* EmitDependencies without the processed_files test of line 165
RECURSIVE EmitDependenciesAll(_, _, _)
EmitDependenciesAll(deps, out, processed) ==
    IF deps = <<>> THEN [out |-> out, processed |-> processed, failed |-> FALSE]
    ELSE LET dep == Head(deps)
         IN IF IsIgnored(dep)
            THEN EmitDependenciesAll(Tail(deps), out, processed \cup {dep})
            ELSE IF ~Readable(dep)
            THEN [out |-> out, processed |-> processed, failed |-> TRUE]
            ELSE EmitDependenciesAll(Tail(deps),
                                     Append(out, FileElement("dependencies", dep,
                                                             dependency_map[dep])),
                                     processed \cup {dep})

\* the for loop of add_dependencies_section, lines 163-178, over the sorted
\* deps: the output, processed_files and whether a read failed
RECURSIVE EmitDependencies(_, _, _)
EmitDependencies(deps, out, processed) ==
    IF deps = <<>> THEN [out |-> out, processed |-> processed, failed |-> FALSE]
    ELSE LET dep == Head(deps)
         IN IF dep \in processed
            THEN EmitDependencies(Tail(deps), out, processed)
            ELSE IF IsIgnored(dep)
            THEN EmitDependencies(Tail(deps), out, processed \cup {dep})
            ELSE IF ~Readable(dep)
            THEN [out |-> out, processed |-> processed, failed |-> TRUE]
            ELSE EmitDependencies(Tail(deps),
                                  Append(out, FileElement("dependencies", dep,
                                                          dependency_map[dep])),
                                  processed \cup {dep})

\* add_dependencies_section, called once the targets have been processed
AddDependenciesSection ==
    /\ fp_pc = "idle"
    /\ pc = "idle"
    /\ LET r == EmitDependencies(SortedDeps(DOMAIN dependency_map),
                                 combined_source_code, processed_files)
       IN /\ combined_source_code' = r.out
          /\ processed_files' = r.processed
          /\ fp_pc' = IF r.failed THEN "failed" ELSE "done"
    /\ UNCHANGED <<world, lookup, resolver, control, walk, observed, history,
                   dependency_map, ignore_patterns, fp_file, pulled_in>>

\* the inputs of the runs of process_files
ContentsOfRuns ==
    { [f \in FsFiles |-> CASE f = FileA -> a [] f = FileB -> b [] f = FileC -> c
                           [] f = FileD -> d [] OTHER -> <<>>] :
        a \in { <<"./b", "./c">>, <<"./missing", "./d">>, <<"lib", "./d">>, <<"./a", "./b">> },
        b \in { <<>>, <<"./d">>, <<"./a">> },
        c \in { <<>>, <<"./d">> },
        d \in { <<>>, <<"./b">> } }

InitFP ==
    /\ content \in ContentsOfRuns
    /\ unreadable \in {{}, {FileD}}
    /\ alias_map = LoadTsconfigAliases
    /\ resolution = [f \in FsFiles |->
                        [i \in 1..Len(content[f]) |->
                            ResolveImportWithResolver(content[f][i], f, alias_map)]]
    /\ resolved_files = {}
    /\ dependency_graph = EmptyGraph
    /\ processing_stack = <<>>
    /\ pc = "idle"
    /\ current_file = None
    /\ frames = <<>>
    /\ entry_file = None
    /\ walk_stack = <<>>
    /\ all_files = <<>>
    /\ result = NoResult
    /\ calls = 0
    /\ reads = <<>>
    /\ warnings = <<>>
    /\ prev_status = "none"
    /\ processed_files = {}
    /\ dependency_map = <<>>
    /\ combined_source_code = <<>>
    /\ ignore_patterns \in {{}, {FileB}}
    /\ fp_pc = "idle"
    /\ fp_file = None
    /\ pulled_in = <<>>
    /\ import_path = None
    /\ resolved_import = None

NextFP ==
    \/ \E file_path \in Entries : ProcessFileWithDeps(file_path)
    \/ Traverse
    \/ FinishProcessFileWithDeps
    \/ AddDependenciesSection

SpecFP == InitFP /\ [][NextFP]_vars

(***************************************************************************)
(* resolve_import_with_resolver called on its own                          *)
(***************************************************************************)
\* the specifiers looked up
Specifiers ==
    { "~/d", "~d", "~//d", "~/d.ts", "~/app/widget", "~/v1.2/x", "~/./b",
      "~/missing", "~/lib/index.js", "./b", "lib", "@app/widget" }

\* the alias map of a tsconfig.json that also has "~/*": ["src/*"] in paths
TildeAliases == LoadTsconfigAliases \cup {<<"~", "src">>}

\* one call resolve_import_with_resolver(import, file, resolver)
ResolveImport(import, file) ==
    /\ fp_pc = "lookup"
    /\ import_path' = import
    /\ current_file' = file
    /\ resolved_import' = ResolveImportWithResolver(import, file, alias_map)
    /\ UNCHANGED <<world, resolver, walk, observed, history, processor, pc,
                   frames, entry_file, result, calls>>

InitResolve ==
    /\ content = [f \in FsFiles |-> <<>>]
    /\ unreadable = {}
    /\ alias_map \in {LoadTsconfigAliases, TildeAliases}
    /\ resolution = [f \in FsFiles |-> <<>>]
    /\ resolved_files = {}
    /\ dependency_graph = EmptyGraph
    /\ processing_stack = <<>>
    /\ pc = "idle"
    /\ current_file = None
    /\ frames = <<>>
    /\ entry_file = None
    /\ walk_stack = <<>>
    /\ all_files = <<>>
    /\ result = NoResult
    /\ calls = 0
    /\ reads = <<>>
    /\ warnings = <<>>
    /\ prev_status = "none"
    /\ processed_files = {}
    /\ dependency_map = <<>>
    /\ combined_source_code = <<>>
    /\ ignore_patterns = {}
    /\ fp_pc = "lookup"
    /\ fp_file = None
    /\ pulled_in = <<>>
    /\ import_path = None
    /\ resolved_import = None

NextResolve ==
    \E import \in Specifiers, file \in FsFiles : ResolveImport(import, file)

SpecResolve == InitResolve /\ [][NextResolve]_vars

TypeOK ==
    /\ pc \in {"idle", "enter", "loop", "error", "collect", "walk"}
    /\ calls \in 0..MaxCalls

(***************************************************************************)
(* Definitions the properties are stated with                              *)
(***************************************************************************)
\* least set that contains S and is closed under the edges of graph
RECURSIVE ReachableFrom(_, _)
ReachableFrom(graph, S) ==
    LET grown == S \cup UNION {GraphGet(graph, x) : x \in S}
    IN IF grown = S THEN S ELSE ReachableFrom(graph, grown)

\* the files from which file is reachable by a non-empty path of edges
TransitiveImporters(graph, file) ==
    {k \in DOMAIN graph : file \in ReachableFrom(graph, graph[k])}

NoDuplicates(seq) == \A i, j \in 1..Len(seq) : i # j => seq[i] # seq[j]

AllPaths == FsFiles \cup FsDirs

Vendored(path) == Contains(path, "node_modules")

\* what the imports written in a file resolve to on this file system
ImportTargets(file) ==
    IF file \in FsFiles
    THEN {resolution[file][i] : i \in 1..Len(content[file])} \ {None}
    ELSE {}

\* the import structure of the file system, vendored targets left out
ImportStructure ==
    [f \in AllPaths |-> {t \in ImportTargets(f) : ~Vendored(t)}]

\* the files of the import structure that lie on a cycle
OnImportCycle(file) == file \in TransitiveImporters(ImportStructure, file)

Returned == pc = "idle" /\ calls > 0
ReturnedOk == Returned /\ result.status = "ok"
ReturnedErr == Returned /\ result.status = "err"

FailedRead == \E i \in 1..Len(reads) : ~Readable(reads[i])

(***************************************************************************)
(* C1: a successful resolve_deps(entry) returns exactly the entry plus     *)
(* every file reachable from it along the recorded edges, each path once;  *)
(* an entry without imports yields exactly the entry.                      *)
(***************************************************************************)
C1_ReachableSetExact ==
    ReturnedOk =>
        /\ Range(result.files) = ReachableFrom(dependency_graph, {entry_file})
        /\ NoDuplicates(result.files)
        /\ (content[entry_file] = <<>> => result.files = <<entry_file>>)

\* the diamond A->B, A->C, B->D, C->D has been resolved from A
C1_Witness ==
    /\ ReturnedOk
    /\ entry_file = FileA
    /\ {FileB, FileC} \subseteq GraphGet(dependency_graph, FileA)
    /\ FileD \in GraphGet(dependency_graph, FileB)
    /\ FileD \in GraphGet(dependency_graph, FileC)
    /\ FileD \in Range(result.files)

(***************************************************************************)
(* C2: with cyclic imports resolve_deps terminates; a file on the visiting *)
(* stack is never descended into again, a warning names it, and the        *)
(* returned set contains every file of a cycle reachable from the entry.   *)
(***************************************************************************)
C2_NoRedescend == NoDuplicates(processing_stack)

C2_WarnedNotDescended ==
    (pc = "enter" /\ current_file \in Range(processing_stack)) =>
        /\ warnings' = Append(warnings, current_file)
        /\ UNCHANGED <<resolver, reads, frames>>

C2_CycleReturned ==
    ReturnedOk =>
        \A f \in ReachableFrom(ImportStructure, {entry_file}) :
            OnImportCycle(f) => f \in Range(result.files) /\ warnings # <<>>

C2_CyclesTerminate ==
    /\ []C2_NoRedescend
    /\ [][C2_WarnedNotDescended]_vars
    /\ []C2_CycleReturned
    /\ (pc # "idle") ~> (pc = "idle")

\* a.ts imports b.ts, b.ts imports a.ts, and resolve_deps(a.ts) has returned
C2_Witness ==
    /\ ReturnedOk
    /\ entry_file = FileA
    /\ FileB \in GraphGet(dependency_graph, FileA)
    /\ FileA \in GraphGet(dependency_graph, FileB)
    /\ FileA \in Range(warnings)
    /\ {FileA, FileB} \subseteq Range(result.files)

(***************************************************************************)
(* C3: after a resolve_deps call, get_all_importers(f) is exactly the set  *)
(* of files from which f is reachable by a non-empty path of graph edges.  *)
(***************************************************************************)
C3_ImportersExact ==
    Returned =>
        \A f \in AllPaths :
            GetAllImporters(f) = TransitiveImporters(dependency_graph, f)

\* the diamond: D is imported by B and C, and transitively by A
C3_Witness ==
    /\ ReturnedOk
    /\ entry_file = FileA
    /\ {FileB, FileC} \subseteq GraphGet(dependency_graph, FileA)
    /\ FileD \in GraphGet(dependency_graph, FileB)
    /\ FileD \in GraphGet(dependency_graph, FileC)
    /\ GetAllImporters(FileD) = {FileA, FileB, FileC}

(***************************************************************************)
(* C4: a path containing "node_modules" that an import resolved to is      *)
(* never an edge target, never entered or read, and never returned.        *)
(***************************************************************************)
C4_VendoredExcluded ==
    /\ \A k \in DOMAIN dependency_graph :
           \A t \in dependency_graph[k] : ~Vendored(t)
    /\ (pc = "enter" /\ frames # <<>>) => ~Vendored(current_file)
    /\ \A i \in 2..Len(reads) : ~Vendored(reads[i])
    /\ \A i \in 2..Len(processing_stack) : ~Vendored(processing_stack[i])
    /\ \A f \in resolved_files \cup Range(result.files) :
           Vendored(f) => f = entry_file

\* a.ts imports "lib", which resolves into node_modules, and then ./d
C4_Witness ==
    /\ ReturnedOk
    /\ entry_file = FileA
    /\ content[FileA] = <<"lib", "./d">>
    /\ resolution[FileA][1] = FileN
    /\ result.files = <<FileA, FileD>>

(***************************************************************************)
(* C5: a failing read makes resolve_deps return an I/O error and no files; *)
(* every active recursion level returns it, and nothing is read, resolved  *)
(* or recorded after the failing read.                                     *)
(***************************************************************************)
C5_ErrorReturned ==
    /\ (Returned /\ FailedRead) => result = [status |-> "err", files |-> <<>>]
    /\ FailedRead =>
           /\ pc \in {"error", "idle"}
           /\ \A i \in 1..(Len(reads) - 1) : Readable(reads[i])

C5_NothingAfterFailure ==
    pc = "error" =>
        /\ pc' \in {"error", "idle"}
        /\ UNCHANGED <<reads, resolver>>
        /\ frames # <<>> => frames' = SubSeq(frames, 1, Len(frames) - 1)
        /\ pc' = "idle" => frames = <<>> /\ result'.status = "err"

C5_ReadFailureIsFatal == []C5_ErrorReturned /\ [][C5_NothingAfterFailure]_vars

\* the failing read happened at least two levels below the entry
C5_Witness ==
    /\ ReturnedErr
    /\ Len(reads) >= 3
    /\ ~Readable(reads[Len(reads)])

(***************************************************************************)
(* C6: when every visited file is readable resolve_deps succeeds; an       *)
(* unresolved specifier adds no edge and no recursion, and the specifiers  *)
(* after it are still processed.                                           *)
(***************************************************************************)
C6_SuccessWhenReadable ==
    (Returned /\ ~FailedRead) =>
        /\ result.status = "ok"
        /\ \A f \in resolved_files :
               \A t \in ImportTargets(f) :
                   ~Vendored(t) => t \in GraphGet(dependency_graph, f)

C6_MissIsSkipped ==
    IF pc = "loop" /\ frames # <<>>
    THEN LET top == frames[Len(frames)]
         IN (/\ top.next <= Len(top.imports)
             /\ resolution[top.file][top.next] = None)
            => /\ pc' = "loop"
               /\ frames' = [frames EXCEPT ![Len(frames)].next = top.next + 1]
               /\ UNCHANGED <<resolver, reads>>
    ELSE TRUE

C6_MissesAreNotErrors == []C6_SuccessWhenReadable /\ [][C6_MissIsSkipped]_vars

\* "./missing" did not resolve and the "./d" after it was still recorded
C6_Witness ==
    /\ ReturnedOk
    /\ entry_file = FileA
    /\ content[FileA] = <<"./missing", "./d">>
    /\ resolution[FileA][1] = None
    /\ dependency_graph[FileA] = {FileD}

(***************************************************************************)
(* C7: every resolve_deps call starts from an empty graph, stack and       *)
(* visited set, also after a failed call, so the graph and the importers   *)
(* only ever hold what the running or most recent call discovered.         *)
(***************************************************************************)
C7_StartsEmpty ==
    (pc = "idle" /\ pc' # "idle") =>
        /\ processing_stack' = <<>>
        /\ dependency_graph' = EmptyGraph
        /\ resolved_files' = {}

C7_OnlyThisCall ==
    /\ DOMAIN dependency_graph \subseteq Range(reads)
    /\ Range(processing_stack) \subseteq Range(reads)
    /\ resolved_files \subseteq Range(reads)
    /\ \A f \in AllPaths : GetAllImporters(f) \subseteq Range(reads)

C7_EachCallStartsFresh == []C7_OnlyThisCall /\ [][C7_StartsEmpty]_vars

\* a successful call that recorded edges has followed a failed call
C7_Witness ==
    /\ ReturnedOk
    /\ calls >= 2
    /\ prev_status = "err"
    /\ dependency_graph # EmptyGraph

(***************************************************************************)
(* C10: after a resolve_deps call failed, the graph holds no edge of the   *)
(* failed traversal, the visiting stack is empty and get_all_importers is  *)
(* empty for every file.                                                   *)
(***************************************************************************)
C10_PartialDiscarded ==
    ReturnedErr =>
        /\ dependency_graph = EmptyGraph
        /\ processing_stack = <<>>
        /\ \A f \in AllPaths : GetAllImporters(f) = {}

(***************************************************************************)
(* C8: a bare or scoped specifier whose prefix is a configured alias is    *)
(* resolved through the alias: "@app/widget" with "@app" -> "src/app"      *)
(* resolves to <root>/src/app/widget.<ext> when that file exists, and to   *)
(* None when it does not.                                                  *)
(***************************************************************************)
IsBareOrScoped(spec) == ~StartsWith(spec, ".") /\ ~StartsWith(spec, "~")

\* the aliases whose name is the prefix of spec
AliasesOf(spec) ==
    {am \in alias_map : spec = am[1] \/ StartsWith(spec, am[1] \o "/")}

\* <root>/<target prefix><rest of spec>, as it is or with an extension
AliasedFile(spec, am) ==
    LET path == Join(BasePath, am[2] \o StripPrefix(spec, am[1]))
    IN IF IsFile(path) THEN path ELSE FirstWithExtension(path)

\* every import the running call has resolved so far
C8_AliasSubstituted ==
    \A k \in 1..Len(frames) :
        \A i \in 1..(frames[k].next - 1) :
            LET spec == frames[k].imports[i]
            IN IsBareOrScoped(spec) =>
                   \A am \in AliasesOf(spec) :
                       /\ resolution[frames[k].file][i] = AliasedFile(spec, am)
                       /\ AliasedFile(spec, am) # None =>
                              AliasedFile(spec, am)
                                  \in GraphGet(dependency_graph, frames[k].file)

(***************************************************************************)
(* C9: for every dependency recorded in dependency_map, the recorded       *)
(* imported-by set contains every file that imports it, directly or        *)
(* transitively, in the traversal of any processed entry.                  *)
(***************************************************************************)
C9_AllImportersKept ==
    \A dep \in DOMAIN dependency_map : pulled_in[dep] \subseteq dependency_map[dep]

\* resolve_deps_recursive has been entered for a file that is on the stack
CycleDetected ==
    /\ pc = "enter"
    /\ frames # <<>>
    /\ OnStack(processing_stack, current_file)

(***************************************************************************)
(* C11 as written: when an import of X resolves to a file Y that is on the *)
(* visiting stack, the edge X -> Y is not in the dependency graph and      *)
(* get_all_importers(Y) does not report X.                                 *)
(***************************************************************************)
C11_CyclicEdgeDropped ==
    CycleDetected =>
        LET X == frames[Len(frames)].file
            Y == current_file
        IN /\ Y \notin GraphGet(dependency_graph, X)
           /\ X \notin GetAllImporters(Y)

(***************************************************************************)
(* C11: when an import of X resolves to a file Y that is on the visiting   *)
(* stack, the edge X -> Y is recorded before the cycle is noticed: it is   *)
(* in the dependency graph when the warning is due, get_all_importers(Y)   *)
(* reports X, and after the call every file a warning names is one of its  *)
(* own importers.                                                          *)
(***************************************************************************)
C11_CyclicEdgeRecorded ==
    /\ CycleDetected =>
           LET X == frames[Len(frames)].file
               Y == current_file
           IN /\ Y \in GraphGet(dependency_graph, X)
              /\ X \in GetAllImporters(Y)
    /\ ReturnedOk => \A Y \in Range(warnings) : Y \in GetAllImporters(Y)

\* b.ts, reached from a.ts, imports a.ts while a.ts is on the stack
C11_Witness ==
    /\ CycleDetected
    /\ current_file = FileA
    /\ frames[Len(frames)].file = FileB
    /\ processing_stack = <<FileA, FileB>>
    /\ FileA \in GraphGet(dependency_graph, FileB)

(***************************************************************************)
(* C12: within one resolve_deps call every file is read, and has its       *)
(* imports extracted, at most once; a recursion into a file that is in the *)
(* visited set or on the visiting stack returns without reading it and     *)
(* without changing the graph, the stack or the visited set.               *)
(***************************************************************************)
C12_NoSecondRead ==
    /\ NoDuplicates(reads)
    /\ \A k \in 1..Len(frames) :
           \E i \in 1..Len(reads) : reads[i] = frames[k].file

C12_EarlyReturn ==
    (pc = "enter" /\ (current_file \in resolved_files
                        \/ current_file \in Range(processing_stack))) =>
        /\ pc' = ReturnTo(frames)
        /\ UNCHANGED <<resolver, reads, frames>>

C12_ReadAtMostOnce == []C12_NoSecondRead /\ [][C12_EarlyReturn]_vars

\* the diamond: c.ts imported d.ts after b.ts had, and the call came straight
\* back without a second read of d.ts
C12_Witness ==
    /\ pc = "loop"
    /\ current_file = FileD
    /\ FileD \in resolved_files
    /\ frames # <<>>
    /\ frames[Len(frames)].file = FileC
    /\ frames[Len(frames)].next = 2
    /\ content[FileC] = <<"./d">>
    /\ reads = <<FileA, FileB, FileD, FileC>>

\* the files of the resolve_deps_recursive calls that are in their for loop
ActiveCalls == [k \in 1..Len(frames) |-> frames[k].file]

\* the files of the calls in progress: a call that is returning an error to
\* its caller is the last of them
DfsPathIs(path) ==
    IF pc = "error"
    THEN path # <<>> /\ SubSeq(path, 1, Len(path) - 1) = ActiveCalls
    ELSE path = ActiveCalls

(***************************************************************************)
(* C13: in every state of a resolve_deps traversal no path is both on      *)
(* processing_stack and in resolved_files, processing_stack holds no path  *)
(* twice and is the current DFS path from the entry, and a path moves from *)
(* the stack to resolved_files only once every one of its specifiers has   *)
(* been resolved and recursed into, or skipped.                            *)
(***************************************************************************)
C13_OneOfVisitingVisited == Range(processing_stack) \cap resolved_files = {}

C13_StackIsDfsPath ==
    pc # "idle" =>
        /\ NoDuplicates(processing_stack)
        /\ DfsPathIs(processing_stack)
        /\ processing_stack # <<>> => processing_stack[1] = entry_file

C13_MovedWhenDone ==
    (pc # "idle" /\ resolved_files' # resolved_files) =>
        /\ frames # <<>>
        /\ LET top == frames[Len(frames)]
           IN /\ top.next = Len(top.imports) + 1
              /\ processing_stack # <<>>
              /\ processing_stack[Len(processing_stack)] = top.file
              /\ resolved_files' = resolved_files \cup {top.file}
              /\ processing_stack' =
                     SubSeq(processing_stack, 1, Len(processing_stack) - 1)

C13_StackDiscipline ==
    /\ []C13_OneOfVisitingVisited
    /\ []C13_StackIsDfsPath
    /\ [][C13_MovedWhenDone]_vars

\* Path::extension of the last component is Some: a dot that is not its
\* first character
HasExtension(path) ==
    LET name == FileName(path)
    IN name # ".." /\ \E i \in 2..Len(name) : SubSeq(name, i, i) = "."

\* the project's source root
SourceRoot == Join(BasePath, "src")

\* the specifier without its ~ and leading slashes, with the default
\* extension when it has none
TildeTarget(spec) ==
    LET remainder == TrimStartMatches(StripPrefix(spec, "~"), "/")
    IN IF HasExtension(remainder) THEN remainder ELSE remainder \o ".ts"

(***************************************************************************)
(* C14: a specifier that begins with ~ is stripped of the ~ and of leading *)
(* slashes, gets .ts appended when the remainder has no file extension,    *)
(* and is resolved as a path under <project-root>/src, whatever the        *)
(* directory of the current file and whatever the alias table holds.       *)
(***************************************************************************)
C14_TildeUnderSourceRoot ==
    (import_path # None /\ StartsWith(import_path, "~")) =>
        LET under == Normalize(Join(SourceRoot, TildeTarget(import_path)))
        IN /\ under \in FsFiles => resolved_import = under
           /\ resolved_import # None =>
                  StartsWith(resolved_import, SourceRoot \o "/")

\* the paths of the <file> elements of the output, in order
EmittedNames == [i \in 1..Len(combined_source_code) |-> combined_source_code[i].name]

(***************************************************************************)
(* C15: over any sequence of process_file_with_deps calls followed by      *)
(* add_dependencies_section every path is emitted at most once: a call on  *)
(* an entry that is in processed_files emits nothing and starts no         *)
(* resolve_deps, and a dependency that the main section has emitted,       *)
(* before or after it was recorded in dependency_map, is not emitted by    *)
(* the dependencies section.                                               *)
(***************************************************************************)
C15_EmittedOnce ==
    /\ NoDuplicates(EmittedNames)
    /\ Range(EmittedNames) \subseteq processed_files

C15_OnlyUnprocessed ==
    /\ Len(combined_source_code') >= Len(combined_source_code)
    /\ SubSeq(combined_source_code', 1, Len(combined_source_code))
           = combined_source_code
    /\ \A i \in (Len(combined_source_code) + 1)..Len(combined_source_code') :
           combined_source_code'[i].name \notin processed_files
    /\ (pc = "idle" /\ pc' = "enter") => entry_file' \notin processed_files

C15_EmitAtMostOnce == []C15_EmittedOnce /\ [][C15_OnlyUnprocessed]_vars

\* a.ts was processed first and recorded b.ts and c.ts as dependencies, b.ts
\* was then processed as an entry, and the dependencies section has emitted
\* c.ts only
C15_Witness ==
    /\ fp_pc = "done"
    /\ {FileB, FileC} \subseteq DOMAIN dependency_map
    /\ Len(combined_source_code) = 3
    /\ combined_source_code[1] = FileElement("main", FileA, {})
    /\ combined_source_code[2] = FileElement("main", FileB, {})
    /\ combined_source_code[3].section = "dependencies"
    /\ combined_source_code[3].name = FileC

\* the files some edge of the graph leads to
EdgeTargets(graph) == UNION {graph[k] : k \in DOMAIN graph}

(***************************************************************************)
(* C16: after every successful resolve_deps(entry) call processing_stack   *)
(* is empty, resolved_files is the returned reachable set, every key and   *)
(* every edge target of dependency_graph is in resolved_files, and every   *)
(* key is reachable from the entry.                                        *)
(***************************************************************************)
C16_SettledAfterSuccess ==
    ReturnedOk =>
        /\ processing_stack = <<>>
        /\ resolved_files = Range(result.files)
        /\ DOMAIN dependency_graph \subseteq resolved_files
        /\ EdgeTargets(dependency_graph) \subseteq resolved_files
        /\ DOMAIN dependency_graph
               \subseteq ReachableFrom(dependency_graph, {entry_file})

\* a.ts imports b.ts and c.ts, b.ts imports d.ts, c.ts imports a.ts and d.ts,
\* and resolve_deps(a.ts) has returned the four files
C16_Witness ==
    /\ ReturnedOk
    /\ entry_file = FileA
    /\ DOMAIN dependency_graph = {FileA, FileB, FileC}
    /\ FileA \in dependency_graph[FileC]
    /\ resolved_files = {FileA, FileB, FileC, FileD}
    /\ Len(result.files) = 4
====
